---- MODULE Spec2Model ----
(***************************************************************************)
(* go-baton: a command line front end that turns one JSON document read    *)
(* from stdin into one operation against an iRODS catalog.                 *)
(*                                                                         *)
(* Strings are sequences of one-character strings (so that path joining    *)
(* and cleaning can be computed); the empty Go string is << >>.            *)
(* A JSON value is a record [t, s]: t is the JSON type and s the text of   *)
(* a string value (or the literal of a number / boolean).  A key that is   *)
(* absent from a Go map reads as nil, which marshals to JSON null.         *)
(***************************************************************************)
EXTENDS Integers, Sequences, FiniteSets, TLC

\* ------------------------------------------------------------------ bounds
MaxAVUs == 3
MaxRows == 2
MaxACLs == 3
MaxLen == 3

\* ------------------------------------------------------- JSON value model
Null == [t |-> "null", s |-> << >>]
JStr(s) == [t |-> "str", s |-> s]
JNum(s) == [t |-> "num", s |-> s]
JBool(s) == [t |-> "bool", s |-> s]

\* Go map read: object[key] is nil when the key is not in the map
Lookup(object, key) == IF key \in DOMAIN object THEN object[key] ELSE Null

\* ------------------------------------------------------------ parsing.go
JSON_DIRECTORY_KEY == "directory"
JSON_DIRECTORY_SHORT_KEY == "dir"
JSON_FILE_KEY == "file"
JSON_COLLECTION_KEY == "collection"
JSON_COLLECTION_SHORT_KEY == "coll"
JSON_DATA_OBJECT_KEY == "data_object"
JSON_DATA_OBJECT_SHORT_KEY == "obj"
JSON_ACCESS_KEY == "access"
JSON_OWNER_KEY == "owner"
JSON_LEVEL_KEY == "level"
JSON_ZONE_KEY == "zone"
JSON_AVUS_KEY == "avus"
JSON_ATTRIBUTE_KEY == "attribute"
JSON_ATTRIBUTE_SHORT_KEY == "a"
JSON_VALUE_KEY == "value"
JSON_VALUE_SHORT_KEY == "v"
JSON_UNITS_KEY == "units"
JSON_UNITS_SHORT_KEY == "u"
JSON_OPERATOR_KEY == "operator"
JSON_OPERATOR_SHORT_KEY == "o"
JSON_ARG_META_ADD == "add"
JSON_ARG_META_REM == "rem"
JSON_RM_OP == "remove"

\* ExtractJSONValue(value, &string): marshal then unmarshal into the string
\* `cur`.  JSON null leaves the target untouched, a JSON string is stored,
\* any other JSON type is an unmarshal type error.
ExtractString(jv, cur) ==
  IF jv.t = "null" THEN [err |-> "nil", value |-> cur]
  ELSE IF jv.t = "str" THEN [err |-> "nil", value |-> jv.s]
  ELSE [err |-> "ErrUnmarshal", value |-> cur]

\* (mutant) the short key is never looked at
getStringValue_CanonicalOnly(object, key, short_key) ==
  LET first == ExtractString(Lookup(object, key), << >>) IN
  IF first.err # "nil" THEN [err |-> first.err, value |-> << >>]
  ELSE IF first.value = << >> THEN [err |-> "ErrMissingKey", value |-> << >>]
  ELSE [err |-> "nil", value |-> first.value]

\* (mutant) an empty value is returned as found
getStringValue_EmptyIsFound(object, key, short_key) ==
  LET first == ExtractString(Lookup(object, key), << >>) IN
  IF first.err # "nil" THEN [err |-> first.err, value |-> << >>]
  ELSE IF first.value # << >> THEN [err |-> "nil", value |-> first.value]
  ELSE ExtractString(Lookup(object, short_key), << >>)

\* (the local operators take each intermediate result as a parameter, so
\* that it is written, and evaluated, once)
getStringValue(object, key, short_key) ==
  LET afterShort(second) ==
        IF second.err # "nil" THEN [err |-> second.err, value |-> << >>]
        ELSE IF second.value = << >>
             THEN [err |-> "ErrMissingKey", value |-> << >>]
             ELSE [err |-> "nil", value |-> second.value]
      afterKey(first) ==
        IF first.err # "nil" THEN [err |-> first.err, value |-> << >>]
        ELSE IF first.value = << >>
             THEN afterShort(ExtractString(Lookup(object, short_key), first.value))
             ELSE afterShort(first) IN
  afterKey(ExtractString(Lookup(object, key), << >>))

GetCollectionValue(object) ==
  getStringValue(object, JSON_COLLECTION_KEY, JSON_COLLECTION_SHORT_KEY)

GetDataObjectValue(object) ==
  getStringValue(object, JSON_DATA_OBJECT_KEY, JSON_DATA_OBJECT_SHORT_KEY)

GetDirectoryValue(object) ==
  getStringValue(object, JSON_DIRECTORY_KEY, JSON_DIRECTORY_SHORT_KEY)

GetFileValue(object) == getStringValue(object, JSON_FILE_KEY, "")

\* ------------------------------------------------- path/filepath.Clean
\* components of a path: the maximal runs of non-separator characters
RECURSIVE SplitPath(_, _, _)
SplitPath(s, i, cur) ==
  IF i > Len(s) THEN (IF cur = << >> THEN << >> ELSE << cur >>)
  ELSE IF s[i] = "/"
       THEN (IF cur = << >> THEN << >> ELSE << cur >>) \o SplitPath(s, i + 1, << >>)
       ELSE SplitPath(s, i + 1, Append(cur, s[i]))

Front(q) == SubSeq(q, 1, Len(q) - 1)

RECURSIVE CleanElems(_, _, _, _)
CleanElems(elems, i, outp, rooted) ==
  IF i > Len(elems) THEN outp
  ELSE LET e == elems[i] IN
       IF e = << "." >> THEN CleanElems(elems, i + 1, outp, rooted)
       ELSE IF e = << ".", "." >>
            THEN IF outp # << >> /\ outp[Len(outp)] # << ".", "." >>
                 THEN CleanElems(elems, i + 1, Front(outp), rooted)
                 ELSE IF rooted
                      THEN CleanElems(elems, i + 1, outp, rooted)
                      ELSE CleanElems(elems, i + 1, Append(outp, e), rooted)
            ELSE CleanElems(elems, i + 1, Append(outp, e), rooted)

RECURSIVE JoinPath(_, _)
JoinPath(elems, i) ==
  IF i > Len(elems) THEN << >>
  ELSE elems[i] \o (IF i < Len(elems) THEN << "/" >> ELSE << >>) \o JoinPath(elems, i + 1)

\* (mutant) a trailing separator of the path is kept
Clean_KeepTrailingSeparator(p) ==
  LET rooted == Len(p) > 0 /\ p[1] = "/"
      join(elems) ==
        (IF rooted THEN << "/" >> \o JoinPath(elems, 1)
         ELSE IF elems = << >> THEN << "." >> ELSE JoinPath(elems, 1))
          \o (IF elems # << >> /\ p[Len(p)] = "/" THEN << "/" >> ELSE << >>) IN
  join(CleanElems(SplitPath(p, 1, << >>), 1, << >>, rooted))

Clean(p) ==
  LET rooted == Len(p) > 0 /\ p[1] = "/"
      join(elems) ==
        IF rooted THEN << "/" >> \o JoinPath(elems, 1)
        ELSE IF elems = << >> THEN << "." >> ELSE JoinPath(elems, 1) IN
  join(CleanElems(SplitPath(p, 1, << >>), 1, << >>, rooted))

GetiRODSPathValue(object) ==
  LET join(coll, obj) ==
        IF obj.err = "ErrMissingKey" THEN [err |-> "nil", path |-> Clean(coll.value)]
        ELSE IF obj.err # "nil" THEN [err |-> obj.err, path |-> << >>]
        ELSE [err |-> "nil", path |-> Clean(coll.value \o << "/" >> \o obj.value)]
      afterColl(coll) ==
        IF coll.err # "nil" THEN [err |-> coll.err, path |-> << >>]
        ELSE join(coll, GetDataObjectValue(object)) IN
  afterColl(GetCollectionValue(object))

GetLocalPathValue(object) ==
  LET join(dir, file) ==
        IF file.err = "ErrMissingKey" THEN [err |-> "nil", path |-> Clean(dir.value)]
        ELSE IF file.err # "nil" THEN [err |-> file.err, path |-> << >>]
        ELSE [err |-> "nil", path |-> Clean(dir.value \o << "/" >> \o file.value)]
      afterDir(dir) ==
        IF dir.err # "nil" THEN [err |-> dir.err, path |-> << >>]
        ELSE join(dir, GetFileValue(object)) IN
  afterDir(GetDirectoryValue(object))

\* parsing.GetiRODSPath / parsing.GetLocalPath: the path together with its
\* kind (coll: no object fragment; dir: no file fragment)
GetiRODSPath(object) ==
  LET kind(r) ==
        [err |-> r.err, path |-> r.path,
         coll |-> r.err = "nil" /\ GetDataObjectValue(object).err = "ErrMissingKey"] IN
  kind(GetiRODSPathValue(object))

GetLocalPath(object) ==
  LET kind(r) ==
        [err |-> r.err, path |-> r.path,
         dir |-> r.err = "nil" /\ GetFileValue(object).err = "ErrMissingKey"] IN
  kind(GetLocalPathValue(object))

\* ExtractJSONValue(value, &map): a JSON object is stored, JSON null leaves
\* the (nil) map untouched, any other JSON type is an unmarshal type error
NilMap == [k \in {} |-> Null]

ExtractObject(jv) ==
  IF jv.t = "null" THEN [err |-> "nil", o |-> NilMap]
  ELSE IF jv.t = "obj" THEN [err |-> "nil", o |-> jv.o]
  ELSE [err |-> "ErrUnmarshal", o |-> NilMap]

\* ExtractJSONValue(value, &map) on a map that already holds entries: the
\* decoder reuses the map, so the entries of the JSON object are stored over
\* those of cur and the other entries of cur are kept
ExtractObjectInto(jv, cur) ==
  IF jv.t = "null" THEN [err |-> "nil", o |-> cur]
  ELSE IF jv.t = "obj"
       THEN [err |-> "nil",
             o |-> [k \in DOMAIN cur \cup DOMAIN jv.o |->
                      IF k \in DOMAIN jv.o THEN jv.o[k] ELSE cur[k]]]
       ELSE [err |-> "ErrUnmarshal", o |-> cur]

\* ExtractJSONValue(value, &[]interface{})
ExtractList(jv) ==
  IF jv.t = "null" THEN [err |-> "nil", items |-> << >>]
  ELSE IF jv.t = "arr" THEN [err |-> "nil", items |-> jv.items]
  ELSE [err |-> "ErrUnmarshal", items |-> << >>]

GetAVUsList(object) == ExtractList(Lookup(object, JSON_AVUS_KEY))

GetAVUValues(object) ==
  LET failed(e) == [err |-> e, attr |-> << >>, value |-> << >>, units |-> << >>]
      result(attr, value, units) ==
        IF attr.err # "nil" THEN failed(attr.err)
        ELSE IF value.err # "nil" /\ value.err # "ErrMissingKey" THEN failed(value.err)
        ELSE IF units.err # "nil" /\ units.err # "ErrMissingKey" THEN failed(units.err)
        ELSE [err |-> "nil", attr |-> attr.value, value |-> value.value,
              units |-> units.value] IN
  result(getStringValue(object, JSON_ATTRIBUTE_KEY, JSON_ATTRIBUTE_SHORT_KEY),
         getStringValue(object, JSON_VALUE_KEY, JSON_VALUE_SHORT_KEY),
         getStringValue(object, JSON_UNITS_KEY, JSON_UNITS_SHORT_KEY))

GetAVUQuery(object) ==
  LET failed(e) == [err |-> e, attr |-> << >>, value |-> << >>, op |-> << >>]
      result(avu, op) ==
        IF avu.err # "nil" THEN failed(avu.err)
        ELSE IF op.err # "nil" /\ op.err # "ErrMissingKey" THEN failed(op.err)
        ELSE [err |-> "nil", attr |-> avu.attr, value |-> avu.value, op |-> op.value] IN
  result(GetAVUValues(object),
         getStringValue(object, JSON_OPERATOR_KEY, JSON_OPERATOR_SHORT_KEY))

\* parsing.GetACLList: the "access" array; MissingKey without one
GetACLList(object) ==
  LET list(l) ==
        IF l.err # "nil" THEN l
        ELSE IF Lookup(object, JSON_ACCESS_KEY).t = "null"
             THEN [err |-> "ErrMissingKey", items |-> << >>]
             ELSE l IN
  list(ExtractList(Lookup(object, JSON_ACCESS_KEY)))

\* parsing.GetACLQuery: owner and level are required, the zone is optional
GetACLQuery(object) ==
  LET failed(e) == [err |-> e, owner |-> << >>, level |-> << >>, zone |-> << >>]
      result(owner, level, zone) ==
        IF owner.err # "nil" THEN failed(owner.err)
        ELSE IF level.err # "nil" THEN failed(level.err)
        ELSE IF zone.err # "nil" /\ zone.err # "ErrMissingKey" THEN failed(zone.err)
        ELSE [err |-> "nil", owner |-> owner.value, level |-> level.value,
              zone |-> zone.value] IN
  result(getStringValue(object, JSON_OWNER_KEY, ""),
         getStringValue(object, JSON_LEVEL_KEY, ""),
         getStringValue(object, JSON_ZONE_KEY, ""))

\* ----------------------------------------------------------- the program
VARIABLES
  stdin,    \* the text on standard input: malformed, or a JSON document
  cmd,      \* the subcommand
  flags,    \* cliFlags and the handler arguments taken from them
  doc,      \* inputContents, the parsed document
  pc,       \* position in the CLI / handler
  err,      \* the handler's err variable; its return value when pc = "done"
  trace,    \* every step and collaborator call made so far, in order
  defers,   \* the deferred calls of the running handler (a stack)
  loc,      \* the handler's local variables
  stdout,   \* what was written to standard output
  parsed    \* a parsing function applied on its own: function, object, result

vars == << stdin, cmd, flags, doc, pc, err, trace, defers, loc, stdout, parsed >>

\* one entry of the trace
Ev(fn, idx, path, a, b, c, flag, ok) ==
  [fn |-> fn, idx |-> idx, path |-> path, a |-> a, b |-> b, c |-> c,
   flag |-> flag, ok |-> ok]
Step(fn) == Ev(fn, 0, << >>, << >>, << >>, << >>, FALSE, TRUE)
Call(fn, ok) == Ev(fn, 0, << >>, << >>, << >>, << >>, FALSE, ok)

\* the deferred calls run in reverse order of their registration
RECURSIVE RunDefers(_)
RunDefers(d) ==
  IF d = << >> THEN << >>
  ELSE << Call(d[Len(d)], TRUE) >> \o RunDefers(Front(d))

\* return e from the handler after the steps evs
Return(e, evs) ==
  /\ pc' = "done"
  /\ err' = e
  /\ trace' = trace \o evs \o RunDefers(defers)
  /\ defers' = << >>

\* ------------------------------------------------------------ the inputs
EmptyDoc == [k \in {} |-> Null]

s_z == << "/", "z" >>
s_f == << "f" >>
s_g == << "g" >>
s_t == << "/", "t" >>
s_a == << "a" >>
s_v == << "v" >>
s_u == << "u" >>
s_5 == << "5" >>
s_zone == << "Z" >>

Opt(s) == {Null, JStr(s)}

\* documents of put and get: a remote and a local path
PathDocs ==
  { [k \in {"collection", "data_object", "obj", "directory", "file"} |->
       CASE k = "collection" -> c [] k = "data_object" -> o [] k = "obj" -> so
         [] k = "directory" -> d [] k = "file" -> f] :
    c \in Opt(s_z), o \in Opt(s_f), so \in Opt(s_g), d \in Opt(s_t), f \in Opt(s_f) }

NoFlags == [operation |-> "", checksum |-> FALSE, zone |-> << >>,
            coll |-> FALSE, obj |-> FALSE, recurse |-> FALSE]

NoLoc == [iPath |-> << >>, lPath |-> << >>, coll |-> FALSE, dir |-> FALSE,
          meta |-> << >>, i |-> 0, collections |-> FALSE, objects |-> FALSE,
          conn |-> FALSE, queries |-> << >>, jsonOut |-> << >>,
          acls |-> << >>, aclValue |-> NilMap]

NotParsed == [fn |-> "", field |-> "", object |-> EmptyDoc, done |-> FALSE,
           result |-> [err |-> "nil"]]

InitTransfer ==
  /\ cmd \in {"put", "get"}
  /\ stdin \in [ok : {TRUE}, doc : PathDocs]
  /\ flags \in {[NoFlags EXCEPT !.checksum = b] : b \in (IF cmd = "put" THEN BOOLEAN ELSE {FALSE})}

\* AVU descriptors of metamod and metaquery documents
AVUKeys == {"attribute", "a", "value", "v", "units", "u", "operator", "o"}

AVU(attribute, a, value, v, units, operator) ==
  [t |-> "obj", s |-> << >>,
   o |-> [k \in AVUKeys |->
            CASE k = "attribute" -> attribute [] k = "a" -> a
              [] k = "value" -> value [] k = "v" -> v
              [] k = "units" -> units [] k = "operator" -> operator
              [] OTHER -> Null]]

AVUItems ==
  { AVU(JStr(s_a), Null, JStr(s_v), Null, JStr(s_u), Null),   \* complete
    AVU(Null, JStr(s_a), Null, JStr(s_v), Null, Null),        \* short keys
    AVU(JStr(s_a), Null, Null, Null, Null, Null),             \* no value
    AVU(JStr(s_a), Null, JStr(<< >>), Null, Null, Null),      \* empty value
    AVU(Null, Null, JStr(s_v), Null, Null, Null),             \* no attribute
    AVU(JStr(s_a), Null, JNum(s_5), Null, Null, Null),        \* value is a number
    JStr(s_a) }                                               \* not an object

RECURSIVE SeqsUpTo(_, _)
SeqsUpTo(S, n) ==
  IF n = 0 THEN {<< >>}
  ELSE LET shorter == SeqsUpTo(S, n - 1) IN
       shorter \cup {Append(q, x) : q \in {r \in shorter : Len(r) = n - 1}, x \in S}

JArr(items) == [t |-> "arr", s |-> << >>, items |-> items]

Operations == {"add", "rem", "remove", "del"}

\* documents of metamod: a remote path and a list of AVUs
MetaModDocs ==
  { [k \in {"collection", "data_object", "avus"} |->
       CASE k = "collection" -> c [] k = "data_object" -> o [] k = "avus" -> l] :
    c \in Opt(s_z), o \in Opt(s_f),
    l \in {Null, JStr(s_a)} \cup {JArr(q) : q \in SeqsUpTo(AVUItems, MaxAVUs)} }

InitMetaMod ==
  /\ cmd = "metamod"
  /\ stdin \in [ok : {TRUE}, doc : MetaModDocs]
  /\ flags \in {[NoFlags EXCEPT !.operation = op] : op \in Operations}

\* AVU descriptors of metaquery documents
QueryItems ==
  { AVU(JStr(s_a), Null, JStr(s_v), Null, Null, Null),        \* no operator
    AVU(Null, JStr(s_a), Null, JStr(s_v), JStr(s_u), Null),   \* short keys, units
    AVU(JStr(s_a), Null, JStr(s_v), Null, Null, JStr(<< "<" >>)),
    AVU(JStr(s_a), Null, JStr(s_v), Null, Null, JStr(<< "=" >>)),
    AVU(Null, Null, JStr(s_v), Null, Null, Null),             \* no attribute
    JStr(s_a) }                                               \* not an object

MetaQueryDocs ==
  { [k \in {"avus"} |-> l] :
    l \in {Null, JStr(s_a)} \cup {JArr(q) : q \in SeqsUpTo(QueryItems, MaxAVUs)} }

InitMetaQuery ==
  /\ cmd = "metaquery"
  /\ stdin \in [ok : {TRUE}, doc : MetaQueryDocs]
  /\ flags \in {[NoFlags EXCEPT !.zone = s_zone, !.coll = c, !.obj = o] :
                  c \in BOOLEAN, o \in BOOLEAN}

\* entries of the access list of chmod documents
s_w == << "w" >>
s_read == << "r", "e", "a", "d" >>
s_own == << "o", "w", "n" >>

JObj(o) == [t |-> "obj", s |-> << >>, o |-> o]

ACLItems ==
  { JObj([owner |-> JStr(s_u), level |-> JStr(s_read), zone |-> JStr(s_zone)]),
    JObj([owner |-> JStr(s_w), level |-> JStr(s_own)]),      \* no zone
    JObj([level |-> JStr(s_own)]),                           \* no owner
    JObj([owner |-> JStr(s_w)]),                             \* no level
    Null,                                                    \* JSON null
    JStr(s_u) }                                              \* not an object

\* documents of chmod: a remote path and an access list
ChmodDocs ==
  { [k \in {"collection", "data_object", "access"} |->
       CASE k = "collection" -> c [] k = "data_object" -> o [] k = "access" -> l] :
    c \in Opt(s_z), o \in Opt(s_f),
    l \in {Null, JStr(s_u)} \cup {JArr(q) : q \in SeqsUpTo(ACLItems, MaxACLs)} }

\* chmod [--recurse]
InitChmod ==
  /\ cmd = "chmod"
  /\ stdin \in [ok : {TRUE}, doc : ChmodDocs]
  /\ flags \in {[NoFlags EXCEPT !.recurse = r] : r \in BOOLEAN}

InitMalformed ==
  /\ cmd \in {"put", "get", "metamod", "metaquery", "chmod"}
  /\ stdin = [ok |-> FALSE, doc |-> EmptyDoc]
  /\ flags = NoFlags

Init ==
  /\ \/ InitTransfer
     \/ InitMetaMod
     \/ InitMetaQuery
     \/ InitChmod
     \/ InitMalformed
  /\ doc = EmptyDoc
  /\ pc = "start"
  /\ err = "nil"
  /\ trace = << >>
  /\ defers = << >>
  /\ loc = NoLoc
  /\ stdout = << >>
  /\ parsed = NotParsed

\* ------------------------------------------------------- cmd/go_baton.go
\* PersistentPreRunE, first part: parsing.ParseStdin exits the process when
\* stdin does not hold JSON
ParseStdin ==
  /\ pc = "start"
  /\ IF stdin.ok
     THEN /\ doc' = stdin.doc
          /\ pc' = "account"
          /\ err' = err
     ELSE /\ doc' = doc
          /\ pc' = "exit"
          /\ err' = "ErrJSON"
  /\ trace' = Append(trace, Ev("ParseStdin", 0, << >>, << >>, << >>, << >>, FALSE, stdin.ok))
  /\ UNCHANGED << parsed, stdin, cmd, flags, defers, loc, stdout >>

\* PersistentPreRunE, second part: the environment manager and the account
\* (NewIRODSAccount connects to the server to check the account); on
\* success cobra runs the subcommand's RunE
NewIRODSAccount ==
  /\ pc = "account"
  /\ \E ok \in BOOLEAN :
       /\ trace' = Append(trace, Call("NewIRODSAccount", ok))
       /\ IF ok THEN pc' = cmd /\ err' = err
                ELSE pc' = "done" /\ err' = "ErrAccount"
  /\ UNCHANGED << parsed, stdin, cmd, flags, doc, defers, loc, stdout >>

\* (mutant) the session is created and its release is not deferred
DeferRelease_Forgotten(d) == d

\* defer filesystem.Release()
DeferRelease(d) == Append(d, "Release")

\* fs.NewFileSystemWithDefault followed by defer filesystem.Release()
NewFileSystem(next) ==
  \E ok \in BOOLEAN :
    IF ok
    THEN /\ trace' = Append(trace, Call("NewFileSystem", TRUE))
         /\ defers' = DeferRelease(defers)
         /\ err' = "nil"
         /\ pc' = next
    ELSE Return("ErrSession", << Call("NewFileSystem", FALSE) >>)

\* ------------------------------------------------------------------- Get
Get ==
  /\ pc = "get"
  /\ LET e1 == << Step("GetiRODSPath") >>
         e2 == << Step("GetiRODSPath"), Step("GetLocalPath") >>
         body(r, l) ==
           IF r.err # "nil" THEN Return(r.err, e1) /\ loc' = loc
           ELSE IF l.err # "nil" THEN Return(l.err, e2) /\ loc' = loc
           ELSE /\ loc' = [loc EXCEPT !.iPath = r.path, !.coll = r.coll,
                                      !.lPath = l.path, !.dir = l.dir]
                /\ err' = IF r.coll /\ ~l.dir THEN "ErrMissingKey" ELSE "nil"
                /\ trace' = trace \o e2
                /\ pc' = "get_fs"
                /\ defers' = defers IN
     body(GetiRODSPath(doc), GetLocalPath(doc))
  /\ UNCHANGED << parsed, stdin, cmd, flags, doc, stdout >>

GetNewFileSystem ==
  /\ pc = "get_fs"
  /\ NewFileSystem("get_download")
  /\ UNCHANGED << parsed, stdin, cmd, flags, doc, loc, stdout >>

GetDownloadFile ==
  /\ pc = "get_download"
  /\ \E ok \in BOOLEAN :
       Return(IF ok THEN "nil" ELSE "ErrDownload",
              << Ev("DownloadFile", 0, loc.iPath, loc.lPath, << >>, << >>, TRUE, ok) >>)
  /\ UNCHANGED << parsed, stdin, cmd, flags, doc, loc, stdout >>

\* ------------------------------------------------------------------- Put
Put ==
  /\ pc = "put"
  /\ LET e1 == << Step("GetiRODSPath") >>
         e2 == << Step("GetiRODSPath"), Step("GetLocalPath") >>
         body(r, l) ==
           IF r.err # "nil" THEN Return(r.err, e1) /\ loc' = loc
           ELSE IF l.err # "nil" THEN Return(l.err, e2) /\ loc' = loc
           ELSE IF l.dir /\ ~r.coll
           THEN Return("ErrMissingKey", e2) /\ loc' = loc
           ELSE /\ loc' = [loc EXCEPT !.iPath = r.path, !.coll = r.coll,
                                      !.lPath = l.path, !.dir = l.dir]
                /\ err' = "nil"
                /\ trace' = trace \o e2
                /\ pc' = "put_fs"
                /\ defers' = defers IN
     body(GetiRODSPath(doc), GetLocalPath(doc))
  /\ UNCHANGED << parsed, stdin, cmd, flags, doc, stdout >>

PutNewFileSystem ==
  /\ pc = "put_fs"
  /\ NewFileSystem("put_upload")
  /\ UNCHANGED << parsed, stdin, cmd, flags, doc, loc, stdout >>

PutUploadFile ==
  /\ pc = "put_upload"
  /\ \E ok \in BOOLEAN :
       Return(IF ok THEN "nil" ELSE "ErrUpload",
              << Ev("UploadFile", 0, loc.iPath, loc.lPath, << >>, << >>, flags.checksum, ok) >>)
  /\ UNCHANGED << parsed, stdin, cmd, flags, doc, loc, stdout >>

\* --------------------------------------------------------------- MetaMod
\* (mutant) the value is not checked: an addition without a value is skipped
MetaModBranch_NoValueCheck(operation, value) ==
  IF operation = JSON_ARG_META_ADD /\ value # << >> THEN "AddMetadata"
  ELSE IF operation = JSON_RM_OP \/ operation = JSON_ARG_META_REM
       THEN "DeleteMetadataByName"
       ELSE "skip"

\* (mutant) the value is required whatever the operation
MetaModBranch_ValueRequired(operation, value) ==
  IF value = << >> THEN "ErrMissingKey"
  ELSE IF operation = JSON_ARG_META_ADD THEN "AddMetadata"
       ELSE "DeleteMetadataByName"

\* what the loop body does with one descriptor, from the operation and the
\* descriptor's value
MetaModBranch(operation, value) ==
  IF operation = JSON_ARG_META_ADD /\ value # << >> THEN "AddMetadata"
  ELSE IF operation = JSON_RM_OP \/ operation = JSON_ARG_META_REM
       THEN "DeleteMetadataByName"
       ELSE IF value = << >> THEN "ErrMissingKey" ELSE "skip"

\* (mutant) the operation is not validated
OperationAllowed_Any(operation) == TRUE

OperationAllowed(operation) ==
  ~(operation # JSON_ARG_META_ADD /\ operation # JSON_ARG_META_REM)

MetaMod ==
  /\ pc = "metamod"
  /\ LET e1 == << Step("CheckOperation") >>
         e2 == << Step("CheckOperation"), Step("GetiRODSPathValue") >>
         e3 == << Step("CheckOperation"), Step("GetiRODSPathValue"), Step("GetAVUsList") >>
         body(r, m) ==
           IF ~OperationAllowed(flags.operation)
           THEN Return("ErrMissingArgument", e1) /\ loc' = loc
           ELSE IF r.err # "nil" THEN Return(r.err, e2) /\ loc' = loc
           ELSE IF m.err # "nil" THEN Return(m.err, e3) /\ loc' = loc
           ELSE /\ loc' = [loc EXCEPT !.iPath = r.path, !.meta = m.items, !.i = 1]
                /\ trace' = trace \o e3
                /\ pc' = "metamod_fs"
                /\ UNCHANGED << err, defers >> IN
     body(GetiRODSPathValue(doc), GetAVUsList(doc))
  /\ UNCHANGED << parsed, stdin, cmd, flags, doc, stdout >>

MetaModNewFileSystem ==
  /\ pc = "metamod_fs"
  /\ NewFileSystem("metamod_loop")
  /\ UNCHANGED << parsed, stdin, cmd, flags, doc, loc, stdout >>

\* (mutant) best effort: a failing item is noted and the loop goes on
ItemFailed_KeepGoing(e, evs) ==
  /\ loc' = [loc EXCEPT !.i = loc.i + 1]
  /\ trace' = trace \o evs
  /\ err' = e
  /\ UNCHANGED << pc, defers >>

\* a failing item: return err from inside the loop
ItemFailed(e, evs) == Return(e, evs) /\ loc' = loc

\* one iteration of the loop over meta
MetaModItem ==
  /\ pc = "metamod_loop"
  /\ loc.i <= Len(loc.meta)
  /\ LET continue(evs) == /\ loc' = [loc EXCEPT !.i = loc.i + 1]
                          /\ trace' = trace \o evs
                          /\ err' = "nil"
                          /\ UNCHANGED << pc, defers >>
         call(c, e) == IF c.ok THEN continue(<< c >>) ELSE ItemFailed(e, << c >>)
         apply(av, branch) ==
           IF branch = "AddMetadata"
           THEN \E ok \in BOOLEAN :
                  call(Ev("AddMetadata", loc.i, loc.iPath, av.attr, av.value,
                          av.units, FALSE, ok), "ErrAddMetadata")
           ELSE IF branch = "DeleteMetadataByName"
           THEN \E ok \in BOOLEAN :
                  call(Ev("DeleteMetadataByName", loc.i, loc.iPath, av.attr, << >>,
                          << >>, FALSE, ok), "ErrDeleteMetadata")
           ELSE IF branch = "ErrMissingKey"
           THEN ItemFailed("ErrMissingKey", << >>)
           ELSE continue(<< >>)
         values(av) ==
           IF av.err # "nil" THEN ItemFailed(av.err, << >>)
           ELSE apply(av, MetaModBranch(flags.operation, av.value))
         body(mv) ==
           IF mv.err # "nil" THEN ItemFailed(mv.err, << >>)
           ELSE values(GetAVUValues(mv.o)) IN
     body(ExtractObject(loc.meta[loc.i]))
  /\ UNCHANGED << parsed, stdin, cmd, flags, doc, stdout >>

\* the loop is over: return nil
MetaModEnd ==
  /\ pc = "metamod_loop"
  /\ loc.i > Len(loc.meta)
  /\ Return("nil", << >>)
  /\ UNCHANGED << parsed, stdin, cmd, flags, doc, loc, stdout >>

\* ------------------------------------------------------------- MetaQuery
collectionColumns ==
  [AttributeCondition |-> "ICAT_COLUMN_META_COLL_ATTR_NAME",
   ValueCondition |-> "ICAT_COLUMN_META_COLL_ATTR_VALUE",
   ReturnColumns |-> << "ICAT_COLUMN_COLL_NAME" >>,
   JSONKeys |-> << JSON_COLLECTION_KEY >>]

\* (mutant) the data-object query filters on the collection metadata columns
objectColumns_CollectionMetadata ==
  [AttributeCondition |-> "ICAT_COLUMN_META_COLL_ATTR_NAME",
   ValueCondition |-> "ICAT_COLUMN_META_COLL_ATTR_VALUE",
   ReturnColumns |-> << "ICAT_COLUMN_COLL_NAME", "ICAT_COLUMN_DATA_NAME" >>,
   JSONKeys |-> << JSON_COLLECTION_KEY, JSON_DATA_OBJECT_KEY >>]

objectColumns ==
  [AttributeCondition |-> "ICAT_COLUMN_META_DATA_ATTR_NAME",
   ValueCondition |-> "ICAT_COLUMN_META_DATA_ATTR_VALUE",
   ReturnColumns |-> << "ICAT_COLUMN_COLL_NAME", "ICAT_COLUMN_DATA_NAME" >>,
   JSONKeys |-> << JSON_COLLECTION_KEY, JSON_DATA_OBJECT_KEY >>]

\* (mutant) a descriptor without operator gets no value condition
Conditions_OperatorOnly(columns, q) ==
  << [column |-> columns.AttributeCondition,
      cond |-> << "=", " ", "'" >> \o q.attr \o << "'" >>] >>
    \o (IF q.op = << >> THEN << >>
        ELSE << [column |-> columns.ValueCondition,
                 cond |-> q.op \o << " ", "'" >> \o q.value \o << "'" >>] >>)

\* the two conditions added for one descriptor: "= '<attr>'" on the
\* attribute column and "<op> '<val>'" on the value column
Conditions(columns, q) ==
  << [column |-> columns.AttributeCondition,
      cond |-> << "=", " ", "'" >> \o q.attr \o << "'" >>],
     [column |-> columns.ValueCondition,
      cond |-> q.op \o << " ", "'" >> \o q.value \o << "'" >>] >>

\* the conditions added by the loop over avus, up to the first error
RECURSIVE BuildConditions(_, _, _, _)
BuildConditions(avus, i, columns, conds) ==
  LET add(q) ==
        IF q.err # "nil" THEN [err |-> q.err, conds |-> << >>]
        ELSE BuildConditions(avus, i + 1, columns, conds \o Conditions(columns, q))
      body(avujson) ==
        IF avujson.err # "nil" THEN [err |-> avujson.err, conds |-> << >>]
        ELSE add(GetAVUQuery(avujson.o)) IN
  IF i > Len(avus) THEN [err |-> "nil", conds |-> conds]
  ELSE body(ExtractObject(avus[i]))

BuildMetaQuery(avus, columns, zone) ==
  LET request(c) ==
        [err |-> c.err,
         query |-> [keyvals |-> << [key |-> "ZONE_KW", val |-> zone] >>,
                    selects |-> IF c.err = "nil" THEN columns.ReturnColumns ELSE << >>,
                    conds |-> c.conds]] IN
  request(BuildConditions(avus, 1, columns, << >>))

\* what the catalog may answer to one query: the request fails, or the
\* response carries an error code, or it carries rows
Responses ==
  { r \in [reqErr : BOOLEAN, code : {"none", "CAT_NO_ROWS_FOUND", "other"},
           rows : 0 .. MaxRows, malformed : BOOLEAN] :
      /\ r.reqErr => r.code = "none" /\ r.rows = 0
      /\ r.code # "none" => r.rows = 0
      /\ r.malformed => r.rows > 0 }

\* parsing.IRODSXMLToJSON: one JSON object per row of the response, in the
\* order of the rows, holding the columns' values under the JSON keys
IRODSXMLToJSON(queryResult, columns) ==
  IF queryResult.malformed THEN [err |-> "ErrConvert", out |-> << >>]
  ELSE [err |-> "nil",
        out |-> [k \in 1 .. queryResult.rows |-> [keys |-> columns.JSONKeys, row |-> k]]]

\* (mutant) every catalog error code is a failure, no-rows-found included
QueryFailed_AnyCode(queryResult) == queryResult.code # "none"

\* (mutant) the error code of the response is ignored
QueryFailed_Never(queryResult) == FALSE

\* queryResult.CheckError() and the test of the error code: is the answer
\* a failure of the query?
QueryFailed(queryResult) ==
  queryResult.code # "none" /\ queryResult.code # "CAT_NO_ROWS_FOUND"

\* (mutant) the flags are taken as given
DefaultScope_NoDefault(collections, objects) ==
  [collections |-> collections, objects |-> objects]

\* the classes to query: both when neither flag is set
DefaultScope(collections, objects) ==
  IF ~collections /\ ~objects
  THEN [collections |-> TRUE, objects |-> TRUE]
  ELSE [collections |-> collections, objects |-> objects]

MetaQuery ==
  /\ pc = "metaquery"
  /\ LET body(scope, l) ==
           IF l.err # "nil"
           THEN Return(l.err, << Step("GetAVUsList") >>) /\ loc' = loc
           ELSE /\ loc' = [loc EXCEPT !.collections = scope.collections,
                                      !.objects = scope.objects,
                                      !.meta = l.items]
                /\ trace' = Append(trace, Step("GetAVUsList"))
                /\ pc' = "metaquery_fs"
                /\ UNCHANGED << err, defers >> IN
     body(DefaultScope(flags.coll, flags.obj), GetAVUsList(doc))
  /\ UNCHANGED << parsed, stdin, cmd, flags, doc, stdout >>

MetaQueryNewFileSystem ==
  /\ pc = "metaquery_fs"
  /\ NewFileSystem("metaquery_conn")
  /\ UNCHANGED << parsed, stdin, cmd, flags, doc, loc, stdout >>

\* (mutant) the connection is locked and the unlock is not deferred
DeferUnlock_Forgotten(d) == d

\* defer conn.Unlock()
DeferUnlock(d) == Append(d, "Unlock")

\* filesystem.GetMetadataConnection, conn.Lock and defer conn.Unlock
GetMetadataConnection(next) ==
  \E ok \in BOOLEAN :
    IF ok
    THEN /\ trace' = trace \o << Call("GetMetadataConnection", TRUE), Call("Lock", TRUE) >>
         /\ defers' = DeferUnlock(defers)
         /\ loc' = [loc EXCEPT !.conn = TRUE]
         /\ pc' = next
         /\ err' = "nil"
    ELSE Return("ErrConnection", << Call("GetMetadataConnection", FALSE) >>) /\ loc' = loc

MetaQueryConnection ==
  /\ pc = "metaquery_conn"
  /\ GetMetadataConnection("metaquery_coll")
  /\ UNCHANGED << parsed, stdin, cmd, flags, doc, stdout >>

\* (mutant) the newest response is put in front
AppendResponse_Prepend(jsonOut, response) == response \o jsonOut

\* jsonOut = append(jsonOut, response...)
AppendResponse(jsonOut, response) == jsonOut \o response

\* the block run for one class of entries: build the query, send it, check
\* the answer, convert the rows and append them to jsonOut
QueryClass(class, columns, next) ==
  LET answered(built, sent, asked, queryResult, conv) ==
        IF queryResult.reqErr
        THEN Return("ErrRequest", << built, sent >>) /\ loc' = asked
        ELSE IF QueryFailed(queryResult)
        THEN Return("ErrCatalog", << built, sent >>) /\ loc' = asked
        ELSE IF conv.err # "nil"
        THEN Return(conv.err, << built, sent >>) /\ loc' = asked
        ELSE /\ loc' = [asked EXCEPT !.jsonOut = AppendResponse(loc.jsonOut, conv.out)]
             /\ trace' = trace \o << built, sent >>
             /\ err' = "nil"
             /\ pc' = next
             /\ UNCHANGED defers
      body(b, built) ==
        IF b.err # "nil" THEN Return(b.err, << built >>) /\ loc' = loc
        ELSE \E queryResult \in Responses :
               answered(built,
                        Ev("Request", class, << >>, << >>, << >>, << >>, FALSE,
                           ~queryResult.reqErr),
                        [loc EXCEPT !.queries =
                           Append(loc.queries, [class |-> class, query |-> b.query,
                                                result |-> queryResult])],
                        queryResult,
                        IRODSXMLToJSON(queryResult, columns))
      build(b) ==
        body(b, Ev("BuildMetaQuery", class, << >>, << >>, << >>, << >>, FALSE,
                   b.err = "nil")) IN
  build(BuildMetaQuery(loc.meta, columns, flags.zone))

MetaQueryCollections ==
  /\ pc = "metaquery_coll"
  /\ IF loc.collections
     THEN QueryClass(1, collectionColumns, "metaquery_obj")
     ELSE pc' = "metaquery_obj" /\ UNCHANGED << err, trace, defers, loc >>
  /\ UNCHANGED << parsed, stdin, cmd, flags, doc, stdout >>

MetaQueryObjects ==
  /\ pc = "metaquery_obj"
  /\ IF loc.objects
     THEN QueryClass(2, objectColumns, "metaquery_out")
     ELSE pc' = "metaquery_out" /\ UNCHANGED << err, trace, defers, loc >>
  /\ UNCHANGED << parsed, stdin, cmd, flags, doc, stdout >>

\* (mutant) every entry of the result is written as a document of its own
Encode_PerEntry(out, jsonOut) == out \o [k \in DOMAIN jsonOut |-> << jsonOut[k] >>]

\* json.NewEncoder(os.Stdout).Encode(jsonOut): one document, the whole list
Encode(out, jsonOut) == Append(out, jsonOut)

\* encoder.Encode(jsonOut) and return nil
MetaQueryEncode ==
  /\ pc = "metaquery_out"
  /\ stdout' = Encode(stdout, loc.jsonOut)
  /\ Return("nil", << Step("Encode") >>)
  /\ UNCHANGED << parsed, stdin, cmd, flags, doc, loc >>

\* ----------------------------------------------------------------- Chmod
Chmod ==
  /\ pc = "chmod"
  /\ LET e1 == << Step("GetiRODSPath") >>
         e2 == << Step("GetiRODSPath"), Step("GetACLList") >>
         body(r, l) ==
           IF r.err # "nil" THEN Return(r.err, e1) /\ loc' = loc
           ELSE IF l.err # "nil" THEN Return(l.err, e2) /\ loc' = loc
           ELSE /\ loc' = [loc EXCEPT !.iPath = r.path, !.coll = r.coll,
                                      !.acls = l.items, !.i = 1]
                /\ trace' = trace \o e2
                /\ pc' = "chmod_fs"
                /\ UNCHANGED << err, defers >> IN
     body(GetiRODSPath(doc), GetACLList(doc))
  /\ UNCHANGED << parsed, stdin, cmd, flags, doc, stdout >>

ChmodNewFileSystem ==
  /\ pc = "chmod_fs"
  /\ NewFileSystem("chmod_conn")
  /\ UNCHANGED << parsed, stdin, cmd, flags, doc, loc, stdout >>

ChmodConnection ==
  /\ pc = "chmod_conn"
  /\ GetMetadataConnection("chmod_loop")
  /\ UNCHANGED << parsed, stdin, cmd, flags, doc, stdout >>

\* (mutant) the collection call, with the recurse flag, whatever the path is
AccessCall_AlwaysCollection(coll, recurse) ==
  [fn |-> "ChangeCollectionAccess", recurse |-> recurse]

\* the call made for one entry: ChangeCollectionAccess with the recurse
\* flag for a collection, ChangeDataObjectAccess (which has none) otherwise
AccessCall(coll, recurse) ==
  IF coll THEN [fn |-> "ChangeCollectionAccess", recurse |-> recurse]
  ELSE [fn |-> "ChangeDataObjectAccess", recurse |-> FALSE]

\* one iteration of the loop over acls; aclValue is declared outside the
\* loop and decoded into again at every iteration
ChmodItem ==
  /\ pc = "chmod_loop"
  /\ loc.i <= Len(loc.acls)
  /\ LET failed(e, evs, decoded) ==
           Return(e, evs) /\ loc' = [loc EXCEPT !.aclValue = decoded]
         apply(q, decoded, c) ==
           \E ok \in BOOLEAN :
             LET ev == Ev(c.fn, loc.i, loc.iPath, q.owner, q.level, q.zone,
                          c.recurse, ok) IN
             IF ok
             THEN /\ loc' = [loc EXCEPT !.i = loc.i + 1, !.aclValue = decoded]
                  /\ trace' = Append(trace, ev)
                  /\ err' = "nil"
                  /\ UNCHANGED << pc, defers >>
             ELSE failed("ErrChangeAccess", << ev >>, decoded)
         query(q, decoded) ==
           IF q.err # "nil" THEN failed(q.err, << >>, decoded)
           ELSE apply(q, decoded, AccessCall(loc.coll, flags.recurse))
         body(x) ==
           IF x.err # "nil" THEN failed(x.err, << >>, x.o)
           ELSE query(GetACLQuery(x.o), x.o) IN
     body(ExtractObjectInto(loc.acls[loc.i], loc.aclValue))
  /\ UNCHANGED << parsed, stdin, cmd, flags, doc, stdout >>

\* the loop is over: return nil
ChmodEnd ==
  /\ pc = "chmod_loop"
  /\ loc.i > Len(loc.acls)
  /\ Return("nil", << >>)
  /\ UNCHANGED << parsed, stdin, cmd, flags, doc, loc, stdout >>

Next ==
  \/ ParseStdin
  \/ NewIRODSAccount
  \/ Get
  \/ GetNewFileSystem
  \/ GetDownloadFile
  \/ Put
  \/ PutNewFileSystem
  \/ PutUploadFile
  \/ MetaMod
  \/ MetaModNewFileSystem
  \/ MetaModItem
  \/ MetaModEnd
  \/ MetaQuery
  \/ MetaQueryNewFileSystem
  \/ MetaQueryConnection
  \/ MetaQueryCollections
  \/ MetaQueryObjects
  \/ MetaQueryEncode
  \/ Chmod
  \/ ChmodNewFileSystem
  \/ ChmodConnection
  \/ ChmodItem
  \/ ChmodEnd

Spec == Init /\ [][Next]_vars

\* ------------------------------------- the parsing functions on their own
\* the fields that have a key and a short key
AliasedFields ==
  { [field |-> "collection", key |-> JSON_COLLECTION_KEY, short_key |-> JSON_COLLECTION_SHORT_KEY],
    [field |-> "data_object", key |-> JSON_DATA_OBJECT_KEY, short_key |-> JSON_DATA_OBJECT_SHORT_KEY],
    [field |-> "directory", key |-> JSON_DIRECTORY_KEY, short_key |-> JSON_DIRECTORY_SHORT_KEY],
    [field |-> "attribute", key |-> JSON_ATTRIBUTE_KEY, short_key |-> JSON_ATTRIBUTE_SHORT_KEY],
    [field |-> "value", key |-> JSON_VALUE_KEY, short_key |-> JSON_VALUE_SHORT_KEY],
    [field |-> "units", key |-> JSON_UNITS_KEY, short_key |-> JSON_UNITS_SHORT_KEY],
    [field |-> "operator", key |-> JSON_OPERATOR_KEY, short_key |-> JSON_OPERATOR_SHORT_KEY] }

KeysOf(field) == CHOOSE f \in AliasedFields : f.field = field

\* the function that resolves a field
Resolve(field, object) ==
  CASE field = "collection" -> GetCollectionValue(object)
    [] field = "data_object" -> GetDataObjectValue(object)
    [] field = "directory" -> GetDirectoryValue(object)
    [] OTHER -> getStringValue(object, KeysOf(field).key, KeysOf(field).short_key)

\* JSON values a key may hold: strings (the empty one too), a number, a
\* boolean
s_true == << "t", "r", "u", "e" >>
StringValues == {JStr(<< >>), JStr(s_a), JStr(s_z), JStr(<< "/", "z", "/" >>)}
KeyValues == StringValues \cup {JNum(s_5), JBool(s_true)}

\* the JSON objects that hold some of the keys, with values of V
ObjectsOver(keys, V) == UNION {[ks -> V] : ks \in SUBSET keys}

\* path fragments: the strings of separators, dots and a letter
PathChars == {"/", ".", "z"}
Fragments(n) == {JStr(q) : q \in SeqsUpTo(PathChars, n)}

\* the JSON objects that hold, for each key k of its domain, one of vals[k]
ObjectsOf(vals) == UNION {{o \in [ks -> UNION {vals[k] : k \in ks}] :
                             \A k \in ks : o[k] \in vals[k]} : ks \in SUBSET DOMAIN vals}

Idle ==
  /\ cmd = "" /\ stdin = [ok |-> TRUE, doc |-> EmptyDoc] /\ flags = NoFlags
  /\ doc = EmptyDoc /\ pc = "" /\ err = "nil" /\ trace = << >>
  /\ defers = << >> /\ loc = NoLoc /\ stdout = << >>

InitParsing ==
  /\ Idle
  /\ \/ \E f \in AliasedFields :
          parsed \in {[NotParsed EXCEPT !.fn = "Resolve", !.field = f.field, !.object = o] :
                      o \in ObjectsOver({f.key, f.short_key}, KeyValues)}
     \/ parsed \in {[NotParsed EXCEPT !.fn = "GetiRODSPathValue", !.object = o] :
                    o \in ObjectsOver({"collection", "coll", "data_object", "obj"},
                                      {JStr(<< >>), JStr(s_z), JNum(s_5)})
                          \cup ObjectsOf([collection |-> Fragments(MaxLen),
                                          data_object |-> Fragments(2)])}
     \/ parsed \in {[NotParsed EXCEPT !.fn = "GetLocalPathValue", !.object = o] :
                    o \in ObjectsOver({"directory", "dir", "file"}, KeyValues)}
     \/ parsed \in {[NotParsed EXCEPT !.fn = "GetiRODSPath", !.object = o] :
                    o \in ObjectsOf([collection |-> Fragments(MaxLen),
                                     data_object |-> Fragments(2)])}
     \/ parsed \in {[NotParsed EXCEPT !.fn = "GetLocalPath", !.object = o] :
                    o \in ObjectsOf(("directory" :> Fragments(2)) @@ ("file" :> Fragments(1))
                                      @@ ("" :> {JStr(s_a)}))}
     \/ parsed \in {[NotParsed EXCEPT !.fn = "GetFileValue", !.object = o] :
                    o \in ObjectsOver({"file", ""}, KeyValues)}
     \/ parsed \in {[NotParsed EXCEPT !.fn = "GetAVUValues", !.object = o] :
                    o \in ObjectsOver({"attribute", "a", "value", "v", "units"},
                                      {JStr(<< >>), JStr(s_a), JNum(s_5)})}

Applied(result) ==
  /\ ~parsed.done
  /\ parsed' = [parsed EXCEPT !.done = TRUE, !.result = result]
  /\ UNCHANGED << stdin, cmd, flags, doc, pc, err, trace, defers, loc, stdout >>

ApplyResolve ==
  /\ parsed.fn = "Resolve"
  /\ Applied(Resolve(parsed.field, parsed.object))

ApplyGetiRODSPathValue ==
  /\ parsed.fn = "GetiRODSPathValue"
  /\ Applied(GetiRODSPathValue(parsed.object))

ApplyGetLocalPathValue ==
  /\ parsed.fn = "GetLocalPathValue"
  /\ Applied(GetLocalPathValue(parsed.object))

ApplyGetiRODSPath ==
  /\ parsed.fn = "GetiRODSPath"
  /\ Applied(GetiRODSPath(parsed.object))

ApplyGetLocalPath ==
  /\ parsed.fn = "GetLocalPath"
  /\ Applied(GetLocalPath(parsed.object))

ApplyGetFileValue ==
  /\ parsed.fn = "GetFileValue"
  /\ Applied(GetFileValue(parsed.object))

ApplyGetAVUValues ==
  /\ parsed.fn = "GetAVUValues"
  /\ Applied(GetAVUValues(parsed.object))

NextParsing ==
  \/ ApplyResolve
  \/ ApplyGetiRODSPathValue
  \/ ApplyGetLocalPathValue
  \/ ApplyGetiRODSPath
  \/ ApplyGetLocalPath
  \/ ApplyGetFileValue
  \/ ApplyGetAVUValues

SpecParsing == InitParsing /\ [][NextParsing]_vars

\* ================================================================== claims
Called(fn) == \E i \in DOMAIN trace : trace[i].fn = fn

\* the kinds of the two paths a document names, read off its keys
RemoteIsCollection(d) ==
  GetCollectionValue(d).err = "nil" /\ GetDataObjectValue(d).err = "ErrMissingKey"
RemoteIsDataObject(d) ==
  GetCollectionValue(d).err = "nil" /\ GetDataObjectValue(d).err = "nil"
LocalIsDirectory(d) ==
  GetDirectoryValue(d).err = "nil" /\ GetFileValue(d).err = "ErrMissingKey"
LocalIsFile(d) ==
  GetDirectoryValue(d).err = "nil" /\ GetFileValue(d).err = "nil"

\* C1: when the document names a remote collection and a local file, Get
\* returns an InvalidArgument error and has made no collaborator call: no
\* session was created and DownloadFile was never invoked.
C1_GetRejectsCollectionIntoFile ==
  (cmd = "get" /\ RemoteIsCollection(doc) /\ LocalIsFile(doc)) =>
    /\ ~Called("NewFileSystem")
    /\ ~Called("DownloadFile")
    /\ (pc = "done" /\ Called("GetLocalPath") => err = "ErrInvalidArgument")

\* C2: when the document names a local directory and a remote data object,
\* Put returns an InvalidArgument error and UploadFile is never invoked; for
\* every other combination of kinds UploadFile is invoked (once the session
\* exists) with the checksum flag it was given.
C2_PutRejectsDirectoryOntoDataObject ==
  (cmd = "put" /\ Called("GetLocalPath")
     /\ GetiRODSPath(doc).err = "nil" /\ GetLocalPath(doc).err = "nil") =>
    IF LocalIsDirectory(doc) /\ RemoteIsDataObject(doc)
    THEN /\ ~Called("UploadFile")
         /\ (pc = "done" => err = "ErrInvalidArgument")
    ELSE (pc = "done" /\ err # "ErrSession") =>
           \E i \in DOMAIN trace :
             /\ trace[i].fn = "UploadFile"
             /\ trace[i].flag = flags.checksum

\* --------------------------------------------------------------- MetaMod
\* the calls made on the collaborator's metadata capabilities, in order
MetaCalls ==
  SelectSeq(trace, LAMBDA e : e.fn \in {"AddMetadata", "DeleteMetadataByName"})

\* MetaMod is past the creation of its session, working on the list loc.meta
InLoop == cmd = "metamod" /\ Called("NewFileSystem") /\ pc \in {"metamod_loop", "done"}
          /\ err # "ErrSession"

\* a descriptor that is a JSON object with no value, or an empty one, under
\* both of its keys
NoValue(item) ==
  /\ item.t = "obj"
  /\ Lookup(item.o, "value") \in {Null, JStr(<< >>)}
  /\ Lookup(item.o, "v") \in {Null, JStr(<< >>)}

HasAttribute(item) ==
  /\ item.t = "obj"
  /\ \/ Lookup(item.o, "attribute") \notin {Null, JStr(<< >>)}
     \/ Lookup(item.o, "a") \notin {Null, JStr(<< >>)}

\* C3: under operation add, AddMetadata is never invoked for a descriptor
\* without a value, at whatever position of the list it stands; when the
\* loop comes to such a descriptor MetaMod returns MissingKey; and MetaMod
\* never returns success for a list that holds one.
C3_AddWithoutValueIsMissingKey ==
  (InLoop /\ flags.operation = "add") =>
    /\ \A j \in DOMAIN MetaCalls : ~NoValue(loc.meta[MetaCalls[j].idx])
    /\ (pc = "done" /\ loc.i <= Len(loc.meta) /\ NoValue(loc.meta[loc.i])
          => err = "ErrMissingKey")
    /\ (pc = "done" /\ err = "nil" => \A j \in DOMAIN loc.meta : ~NoValue(loc.meta[j]))

\* the offending descriptor stands second, after one that was added
C3_Witness ==
  /\ InLoop /\ flags.operation = "add" /\ pc = "done"
  /\ loc.i = 2 /\ Len(loc.meta) = 3
  /\ NoValue(loc.meta[2]) /\ HasAttribute(loc.meta[2])
  /\ err = "ErrMissingKey"
  /\ Len(MetaCalls) = 1 /\ MetaCalls[1].ok

\* C4: MetaMod is fail-fast without rollback.  The metadata calls are made
\* for the items 1, 2, ... in list order, all by the capability of the
\* operation (no compensating call); only the last call can have failed, and
\* then MetaMod has returned its error; when MetaMod returns at item k with
\* an error, the calls are those of items 1..k-1 (plus the failing call of
\* item k for a collaborator error) and nothing after k was processed; it
\* returns nil only after a successful call for every item.
C4_FailFastNoRollback ==
  InLoop =>
    LET mc == MetaCalls
        n == Len(mc)
        k == loc.i IN
    /\ \A j \in 1 .. n :
         /\ mc[j].idx = j
         /\ mc[j].fn = (IF flags.operation = "add" THEN "AddMetadata"
                        ELSE "DeleteMetadataByName")
         /\ mc[j].path = loc.iPath
         /\ (~mc[j].ok =>
               /\ j = n /\ pc = "done"
               /\ err = (IF mc[j].fn = "AddMetadata" THEN "ErrAddMetadata"
                         ELSE "ErrDeleteMetadata"))
    /\ (pc = "metamod_loop" => n = k - 1 /\ err = "nil")
    /\ (pc = "done" =>
          IF err = "nil"
          THEN k = Len(loc.meta) + 1 /\ n = Len(loc.meta)
          ELSE /\ k <= Len(loc.meta)
               /\ IF err \in {"ErrAddMetadata", "ErrDeleteMetadata"}
                  THEN n = k /\ ~mc[n].ok
                  ELSE n = k - 1 /\ err \in {"ErrMissingKey", "ErrUnmarshal"})

\* the first item was applied, the second failed, a third was never processed
C4_Witness ==
  /\ InLoop /\ pc = "done" /\ err # "nil"
  /\ Len(loc.meta) = 3 /\ loc.i = 2
  /\ MetaCalls[1].ok
  /\ ~\E j \in DOMAIN MetaCalls : MetaCalls[j].idx = 3

\* C5: under operation rem a descriptor that has an attribute and no value
\* is accepted: the loop, coming to it, invokes DeleteMetadataByName with the
\* path and the attribute name only, and MetaMod does not return MissingKey
\* at that descriptor.
C5_RemoveNeedsNoValue ==
  (InLoop /\ flags.operation = "rem") =>
    /\ \A j \in DOMAIN loc.meta :
         (HasAttribute(loc.meta[j]) /\ NoValue(loc.meta[j])
            /\ (j < loc.i \/ (j = loc.i /\ pc = "done"))) =>
           /\ j <= Len(MetaCalls)
           /\ MetaCalls[j] =
                Ev("DeleteMetadataByName", j, loc.iPath,
                   GetAVUValues(loc.meta[j].o).attr, << >>, << >>, FALSE,
                   MetaCalls[j].ok)
           /\ (j = loc.i => err = "ErrDeleteMetadata")
    /\ \A j \in DOMAIN MetaCalls :
         MetaCalls[j].b = << >> /\ MetaCalls[j].c = << >>

C5_Witness ==
  /\ InLoop /\ flags.operation = "rem" /\ pc = "done" /\ err = "nil"
  /\ Len(loc.meta) >= 1
  /\ HasAttribute(loc.meta[1]) /\ NoValue(loc.meta[1])
  /\ MetaCalls[1].fn = "DeleteMetadataByName" /\ MetaCalls[1].a = s_a
  /\ MetaCalls[1].ok

\* C6 (as stated): when the --operation value is outside the set, the
\* failure is reported before the stdin document is parsed and before any
\* path/AVU resolution or collaborator call.
C6_OperationCheckedBeforeParsing ==
  (cmd = "metamod" /\ flags.operation \notin {"add", "rem", "remove"}
     /\ pc = "done" /\ err = "ErrMissingArgument") =>
    \A j \in DOMAIN trace : trace[j].fn = "CheckOperation"

\* C6 (amended): the operation is validated at the start of MetaMod, after
\* the CLI has parsed stdin and set up the account: for an --operation value
\* outside the set nothing follows the check (no path or AVU resolution, no
\* session, no metadata call) and MetaMod returns MissingArgument.
C6_OperationCheckedBeforeResolution ==
  (cmd = "metamod" /\ flags.operation \notin {"add", "rem", "remove"}) =>
    /\ \A j \in DOMAIN trace :
         trace[j].fn \in {"ParseStdin", "NewIRODSAccount", "CheckOperation"}
    /\ (Called("CheckOperation") =>
          /\ pc = "done" /\ err = "ErrMissingArgument"
          /\ trace = << Ev("ParseStdin", 0, << >>, << >>, << >>, << >>, FALSE, TRUE),
                        Call("NewIRODSAccount", TRUE), Step("CheckOperation") >>)

\* the document would have resolved: it has a collection and a list of AVUs
C6_Witness ==
  /\ cmd = "metamod" /\ flags.operation = "del"
  /\ pc = "done" /\ err = "ErrMissingArgument"
  /\ Called("ParseStdin") /\ Called("CheckOperation")
  /\ GetiRODSPathValue(doc).err = "nil"
  /\ Len(GetAVUsList(doc).items) = 2

\* C7: MetaMod called with operation "remove" passes the operation check and
\* invokes DeleteMetadataByName for each descriptor.
C7_RemoveIsAccepted ==
  (cmd = "metamod" /\ flags.operation = "remove" /\ Called("CheckOperation")) =>
    /\ err # "ErrMissingArgument"
    /\ (pc = "done" /\ err = "nil" =>
          /\ Len(MetaCalls) = Len(loc.meta)
          /\ \A j \in DOMAIN MetaCalls : MetaCalls[j].fn = "DeleteMetadataByName")

\* ------------------------------------------------------------- MetaQuery
\* the queries sent to the catalog, in order
Requests == SelectSeq(trace, LAMBDA e : e.fn = "Request")

\* the classes (1: collections, 2: data objects) the flags ask for
ExpectedClasses ==
  LET neither == ~flags.coll /\ ~flags.obj IN
  (IF flags.coll \/ neither THEN << 1 >> ELSE << >>)
    \o (IF flags.obj \/ neither THEN << 2 >> ELSE << >>)

\* C8: with neither scope flag set the two classes are queried, collections
\* then data objects; with one flag set only that class is: the queries sent
\* are always the first ones of the expected list, and they are all of it
\* when MetaQuery succeeds.
C8_DefaultScopeIsBoth ==
  cmd = "metaquery" =>
    /\ Len(Requests) <= Len(ExpectedClasses)
    /\ \A j \in DOMAIN Requests : Requests[j].idx = ExpectedClasses[j]
    /\ (pc = "done" /\ err = "nil" => Len(Requests) = Len(ExpectedClasses))

C8_Witness ==
  /\ cmd = "metaquery" /\ ~flags.coll /\ ~flags.obj
  /\ pc = "done" /\ err = "nil"
  /\ Len(Requests) = 2 /\ Requests[1].idx = 1 /\ Requests[2].idx = 2

ZeroRows(r) ==
  ~r.reqErr /\ (r.code = "CAT_NO_ROWS_FOUND" \/ (r.code = "none" /\ r.rows = 0))

Succeeded(r) == ~r.reqErr /\ r.code \in {"none", "CAT_NO_ROWS_FOUND"} /\ ~r.malformed

BothClasses == cmd = "metaquery" /\ loc.collections /\ loc.objects
               /\ Len(loc.queries) >= 1 /\ loc.queries[1].class = 1

\* C9: with both classes requested, a collection query that matches zero
\* rows (no-rows-found code, or row count 0) is not a failure: MetaQuery goes
\* on to the data-object query and cannot return without having sent it,
\* the collection class adds nothing to the result, and MetaQuery returns
\* success (writing the result) when the data-object query succeeds.
C9_ZeroCollectionRowsIsNotFailure ==
  (BothClasses /\ ZeroRows(loc.queries[1].result)) =>
    /\ pc \in {"metaquery_obj", "metaquery_out", "done"}
    /\ (pc \in {"metaquery_out", "done"} =>
          Len(loc.queries) = 2 /\ loc.queries[2].class = 2)
    /\ \A j \in DOMAIN loc.jsonOut : loc.jsonOut[j].keys # collectionColumns.JSONKeys
    /\ (pc = "done" /\ Succeeded(loc.queries[2].result) =>
          err = "nil" /\ stdout = << loc.jsonOut >>)

C9_Witness ==
  /\ BothClasses /\ loc.queries[1].result.code = "CAT_NO_ROWS_FOUND"
  /\ pc = "done" /\ err = "nil"
  /\ Len(loc.queries) = 2 /\ loc.queries[2].result.rows = 1
  /\ Len(loc.jsonOut) = 1 /\ stdout = << loc.jsonOut >>

\* C10: with both classes requested, a collection query that fails for
\* another reason than no-rows-found (the request errors, or the response
\* carries another error code) makes MetaQuery return that error at once:
\* the data-object query is neither built nor sent, and nothing is written.
C10_CollectionFailureAborts ==
  (BothClasses /\ (loc.queries[1].result.reqErr \/ loc.queries[1].result.code = "other")) =>
    /\ pc = "done"
    /\ err = (IF loc.queries[1].result.reqErr THEN "ErrRequest" ELSE "ErrCatalog")
    /\ Len(loc.queries) = 1
    /\ \A j \in DOMAIN trace :
         trace[j].fn \in {"BuildMetaQuery", "Request"} => trace[j].idx = 1
    /\ stdout = << >>

C10_Witness ==
  /\ BothClasses /\ loc.queries[1].result.code = "other"
  /\ pc = "done" /\ err = "ErrCatalog"
  /\ Len(Requests) = 1 /\ Len(loc.meta) >= 1

\* the entries of the result that came from collections / from data objects
OutCollections(out) == SelectSeq(out, LAMBDA e : e.keys = collectionColumns.JSONKeys)
OutObjects(out) == SelectSeq(out, LAMBDA e : e.keys = objectColumns.JSONKeys)

\* the number of rows the catalog returned for a class (0 when not queried)
RowsOf(class) ==
  LET qs == SelectSeq(loc.queries, LAMBDA q : q.class = class) IN
  IF qs = << >> THEN 0 ELSE qs[1].result.rows

\* C11: the merged output is the collection results followed by the
\* data-object results: every collection entry precedes every data-object
\* entry, within a class the entries are the catalog's rows 1, 2, ... in
\* the catalog's order, and on success what is written is that sequence,
\* holding every row of every answered query.
C11_MergedOutputOrder ==
  cmd = "metaquery" =>
    LET out == loc.jsonOut
        colls == OutCollections(out)
        objs == OutObjects(out) IN
    /\ out = colls \o objs
    /\ \A k \in DOMAIN colls : colls[k].row = k
    /\ \A k \in DOMAIN objs : objs[k].row = k
    /\ (pc = "done" /\ err = "nil") =>
         /\ stdout = << out >>
         /\ Len(colls) = RowsOf(1)
         /\ Len(objs) = RowsOf(2)
    /\ (stdout # << >> => pc = "done" /\ err = "nil")

\* two rows of each class were returned
C11_Witness ==
  /\ cmd = "metaquery" /\ pc = "done" /\ err = "nil"
  /\ Len(stdout) = 1 /\ Len(stdout[1]) = 4
  /\ stdout[1][2] = [keys |-> << "collection" >>, row |-> 2]
  /\ stdout[1][3] = [keys |-> << "collection", "data_object" >>, row |-> 1]

\* the text of a descriptor's field, under its key or else its short key
Field(item, key, short_key) ==
  IF Lookup(item.o, key) \notin {Null, JStr(<< >>)}
  THEN Lookup(item.o, key).s ELSE Lookup(item.o, short_key).s

\* every descriptor of the list is a JSON object with an attribute
AllHaveAttribute(avus) == \A i \in DOMAIN avus : HasAttribute(avus[i])

Builds == SelectSeq(trace, LAMBDA e : e.fn = "BuildMetaQuery")

Chars(str) == {str[i] : i \in DOMAIN str}

\* C12: for a list of N descriptors that all have an attribute,
\* BuildMetaQuery succeeds (N = 0 included) and the request holds exactly 2N
\* conditions: for the i-th descriptor the condition on the attribute-name
\* column, then the one on the attribute-value column, whether or not the
\* descriptor has an operator or units; the units appear in no condition,
\* and the zone is the one key-value keyword of the request and no condition.
C12_TwoConditionsPerDescriptor ==
  (cmd = "metaquery" /\ AllHaveAttribute(loc.meta)) =>
    /\ \A j \in DOMAIN Builds : Builds[j].ok
    /\ \A j \in DOMAIN loc.queries :
         LET q == loc.queries[j].query
             columns == IF loc.queries[j].class = 1 THEN collectionColumns
                        ELSE objectColumns IN
         /\ Len(q.conds) = 2 * Len(loc.meta)
         /\ \A i \in DOMAIN loc.meta :
              /\ q.conds[2 * i - 1].column = columns.AttributeCondition
              /\ q.conds[2 * i - 1].cond =
                   << "=", " ", "'" >> \o Field(loc.meta[i], "attribute", "a") \o << "'" >>
              /\ q.conds[2 * i].column = columns.ValueCondition
         /\ \A k \in DOMAIN q.conds :
              /\ "u" \notin Chars(q.conds[k].cond)
              /\ "Z" \notin Chars(q.conds[k].cond)
         /\ q.keyvals = << [key |-> "ZONE_KW", val |-> flags.zone] >>

\* three descriptors, one with units and short keys, one with an operator
C12_Witness ==
  /\ cmd = "metaquery" /\ Len(loc.meta) = 3 /\ AllHaveAttribute(loc.meta)
  /\ Lookup(loc.meta[1].o, "units") = JStr(s_u)
  /\ Lookup(loc.meta[2].o, "operator") = JStr(<< "<" >>)
  /\ Lookup(loc.meta[3].o, "operator") = Null
  /\ Len(loc.queries) = 2
  /\ Len(loc.queries[2].query.conds) = 6

\* no conditions at all for the empty list
C12_WitnessEmpty ==
  /\ cmd = "metaquery" /\ loc.meta = << >> /\ Lookup(doc, "avus").t = "arr"
  /\ Len(loc.queries) = 2 /\ loc.queries[1].query.conds = << >>

\* C13: for a descriptor with neither the "operator" nor the "o" key, the
\* value condition of every request is "= '<value>'", the condition
\* compiled for the explicit operator "=".
C13_OperatorDefaultsToEquals ==
  cmd = "metaquery" =>
    \A j \in DOMAIN loc.queries :
      \A i \in DOMAIN loc.meta :
        (Lookup(loc.meta[i].o, "operator") = Null /\ Lookup(loc.meta[i].o, "o") = Null) =>
          loc.queries[j].query.conds[2 * i].cond =
            << "=", " ", "'" >> \o Field(loc.meta[i], "value", "v") \o << "'" >>

\* C14: every request is built for one class.  The collection request
\* selects the collection-name column only and puts its conditions on the
\* collection-metadata name / value columns only; the data-object request
\* selects collection name then data-object name and puts its conditions on
\* the data-object-metadata name / value columns only; the two requests of
\* one run have the same keywords and the same condition texts, position by
\* position: they differ in the columns only.
C14_OneClassPerRequest ==
  cmd = "metaquery" =>
    /\ \A j \in DOMAIN loc.queries :
         LET q == loc.queries[j].query IN
         IF loc.queries[j].class = 1
         THEN /\ q.selects = << "ICAT_COLUMN_COLL_NAME" >>
              /\ \A k \in DOMAIN q.conds :
                   q.conds[k].column =
                     (IF k % 2 = 1 THEN "ICAT_COLUMN_META_COLL_ATTR_NAME"
                      ELSE "ICAT_COLUMN_META_COLL_ATTR_VALUE")
         ELSE /\ q.selects = << "ICAT_COLUMN_COLL_NAME", "ICAT_COLUMN_DATA_NAME" >>
              /\ \A k \in DOMAIN q.conds :
                   q.conds[k].column =
                     (IF k % 2 = 1 THEN "ICAT_COLUMN_META_DATA_ATTR_NAME"
                      ELSE "ICAT_COLUMN_META_DATA_ATTR_VALUE")
    /\ Len(loc.queries) <= 2
    /\ Len(loc.queries) = 2 =>
         LET c == loc.queries[1].query
             o == loc.queries[2].query IN
         /\ loc.queries[1].class = 1 /\ loc.queries[2].class = 2
         /\ c.keyvals = o.keyvals
         /\ Len(c.conds) = Len(o.conds)
         /\ \A k \in DOMAIN c.conds :
              /\ c.conds[k].cond = o.conds[k].cond
              /\ c.conds[k].column # o.conds[k].column

C14_Witness ==
  /\ cmd = "metaquery" /\ Len(loc.queries) = 2 /\ Len(loc.meta) = 2
  /\ loc.queries[1].query.conds[1].column = "ICAT_COLUMN_META_COLL_ATTR_NAME"
  /\ loc.queries[2].query.conds[4].column = "ICAT_COLUMN_META_DATA_ATTR_VALUE"

\* ------------------------------------------------------ connection lock
\* the positions in the trace of the calls named in fns
Positions(fns) == {i \in DOMAIN trace : trace[i].fn \in fns}

CatalogRequests ==
  Positions({"Request", "ChangeCollectionAccess", "ChangeDataObjectAccess"})

\* at position r of the trace the lock is held: it was taken before and
\* not released since
LockHeldAt(r) ==
  /\ \E l \in Positions({"Lock"}) : l < r
  /\ \A u \in Positions({"Unlock"}) : u > r

\* C15: in Chmod and MetaQuery the lock is taken once, before the first
\* catalog request; every request (access change, query) is made while it
\* is held; it is not released while the handler runs; and whenever the
\* handler has returned after taking it, on success or from a failing item,
\* it was released exactly once.
C15_LockHeldAroundRequests ==
  (cmd \in {"chmod", "metaquery"}) =>
    /\ Cardinality(Positions({"Lock"})) <= 1
    /\ \A r \in CatalogRequests : LockHeldAt(r)
    /\ \A u \in Positions({"Unlock"}) : \E l \in Positions({"Lock"}) : l < u
    /\ (pc # "done" => Positions({"Unlock"}) = {})
    /\ (pc = "done" =>
          Cardinality(Positions({"Unlock"})) = Cardinality(Positions({"Lock"})))

\* Chmod returned from its second item, whose access change failed
C15_Witness ==
  /\ cmd = "chmod" /\ pc = "done" /\ err = "ErrChangeAccess"
  /\ Cardinality(CatalogRequests) = 2
  /\ Cardinality(Positions({"Lock"})) = 1
  /\ Cardinality(Positions({"Unlock"})) = 1
  /\ trace[Len(trace)].fn = "Release" /\ trace[Len(trace) - 1].fn = "Unlock"

\* MetaQuery returned from a failing data-object query
C15_WitnessMetaQuery ==
  /\ cmd = "metaquery" /\ pc = "done" /\ err = "ErrCatalog"
  /\ Cardinality(CatalogRequests) = 2
  /\ Cardinality(Positions({"Unlock"})) = 1

\* C16: in MetaMod a connection lock is taken before the first add/delete
\* request and released after the last: every metadata call is made while
\* the lock is held, and the lock is released once MetaMod has returned.
C16_MetaModHoldsLock ==
  cmd = "metamod" =>
    /\ \A r \in Positions({"AddMetadata", "DeleteMetadataByName"}) : LockHeldAt(r)
    /\ (pc = "done" =>
          Cardinality(Positions({"Unlock"})) = Cardinality(Positions({"Lock"})))

\* ----------------------------------------------------------------- Chmod
AccessCalls ==
  SelectSeq(trace, LAMBDA e : e.fn \in {"ChangeCollectionAccess", "ChangeDataObjectAccess"})

\* Chmod is past the locking of its connection, working on the list loc.acls
InChmodLoop == cmd = "chmod" /\ Called("Lock")

\* C17: the access-change calls of Chmod are made for the entries 1, 2, ...
\* of the list in order, one call per entry, all on the resolved path: the
\* collection call when the path is a collection, carrying the --recurse
\* flag, and the data-object call otherwise, never carrying it; only the
\* last call can have failed; Chmod returns nil only after one successful
\* call for every entry.
C17_OneAccessCallPerEntry ==
  InChmodLoop =>
    LET ac == AccessCalls
        n == Len(ac) IN
    /\ \A j \in 1 .. n :
         /\ ac[j].idx = j
         /\ ac[j].path = loc.iPath
         /\ ac[j].path = GetiRODSPathValue(doc).path
         /\ IF RemoteIsCollection(doc)
            THEN ac[j].fn = "ChangeCollectionAccess" /\ ac[j].flag = flags.recurse
            ELSE ac[j].fn = "ChangeDataObjectAccess" /\ ac[j].flag = FALSE
         /\ (~ac[j].ok => j = n /\ pc = "done" /\ err = "ErrChangeAccess")
    /\ (pc = "chmod_loop" => n = loc.i - 1)
    /\ (pc = "done" /\ err = "nil" => n = Len(loc.acls))

\* --recurse on a collection: both entries changed, recursively
C17_Witness ==
  /\ InChmodLoop /\ pc = "done" /\ err = "nil"
  /\ flags.recurse /\ RemoteIsCollection(doc)
  /\ Len(loc.acls) = 2 /\ Len(AccessCalls) = 2
  /\ AccessCalls[2].fn = "ChangeCollectionAccess" /\ AccessCalls[2].flag

\* --recurse on a data object: the flag does not reach the call
C17_WitnessDataObject ==
  /\ InChmodLoop /\ pc = "done" /\ err = "nil"
  /\ flags.recurse /\ RemoteIsDataObject(doc)
  /\ Len(AccessCalls) = 2
  /\ AccessCalls[1].fn = "ChangeDataObjectAccess" /\ ~AccessCalls[1].flag

\* an entry of the access list that is a JSON object without owner, or
\* without level
LacksOwnerOrLevel(item) ==
  /\ item.t = "obj"
  /\ \/ Lookup(item.o, "owner") \in {Null, JStr(<< >>)}
     \/ Lookup(item.o, "level") \in {Null, JStr(<< >>)}

\* C18: Chmod fails with MissingKey, before any session, for a document
\* without "access" array; no access change is ever made for an entry that
\* lacks an owner or a level: when the loop comes to such an entry Chmod
\* returns MissingKey, and it never returns success for a list holding one;
\* an entry with owner and level and no zone is not rejected.
C18_ACLNeedsOwnerAndLevel ==
  (cmd = "chmod" /\ Called("GetACLList")) =>
    /\ (Lookup(doc, "access") = Null =>
          pc = "done" /\ err = "ErrMissingKey" /\ ~Called("NewFileSystem"))
    /\ \A j \in DOMAIN AccessCalls : ~LacksOwnerOrLevel(loc.acls[AccessCalls[j].idx])
    /\ (pc = "done" /\ Called("Lock") /\ loc.i <= Len(loc.acls)
          /\ LacksOwnerOrLevel(loc.acls[loc.i]) => err = "ErrMissingKey")
    /\ (pc = "done" /\ err = "nil" =>
          \A j \in DOMAIN loc.acls : ~LacksOwnerOrLevel(loc.acls[j]))

\* ------------------------------------------------------------- parsing
\* C19: for each aliased field and each string v, resolving the field on
\* the document that holds only the short key, with value v, gives the same
\* value and the same error as resolving it on the document that holds only
\* the canonical key with value v: the value v without error when v is not
\* empty, MissingKey when it is.
C19_ShortKeyResolvesLikeCanonical ==
  (parsed.fn = "Resolve" /\ parsed.done
     /\ DOMAIN parsed.object = {KeysOf(parsed.field).short_key}
     /\ parsed.object[KeysOf(parsed.field).short_key] \in StringValues) =>
    LET f == KeysOf(parsed.field)
        v == parsed.object[f.short_key] IN
    /\ parsed.result = Resolve(parsed.field, [k \in {f.key} |-> v])
    /\ IF v.s = << >> THEN parsed.result.err = "ErrMissingKey"
       ELSE parsed.result = [err |-> "nil", value |-> v.s]

C19_Witness ==
  /\ parsed.fn = "Resolve" /\ parsed.done /\ parsed.field = "directory"
  /\ DOMAIN parsed.object = {"dir"} /\ parsed.object["dir"] = JStr(s_z)
  /\ parsed.result = [err |-> "nil", value |-> s_z]

\* the field a function requires
RequiredField(fn, field) ==
  CASE fn = "Resolve" -> KeysOf(field)
    [] fn = "GetiRODSPathValue" -> KeysOf("collection")
    [] fn = "GetLocalPathValue" -> KeysOf("directory")
    [] fn = "GetAVUValues" -> KeysOf("attribute")
    [] fn = "GetiRODSPath" -> KeysOf("collection")
    [] fn = "GetLocalPath" -> KeysOf("directory")
    [] fn = "GetFileValue" -> [key |-> JSON_FILE_KEY, short_key |-> << >>]

\* C20: applied to a document that has neither the canonical nor the short
\* key of the required field (whatever its other keys hold), each resolving
\* function returns the MissingKey error: no other error, no success.
C20_MissingBothKeysIsMissingKey ==
  (parsed.done
     /\ RequiredField(parsed.fn, parsed.field).key \notin DOMAIN parsed.object
     /\ RequiredField(parsed.fn, parsed.field).short_key \notin DOMAIN parsed.object) =>
    parsed.result.err = "ErrMissingKey"

\* no collection, and a data object that is not a string
C20_Witness ==
  /\ parsed.done /\ parsed.fn = "GetiRODSPathValue"
  /\ DOMAIN parsed.object = {"data_object"} /\ parsed.object["data_object"] = JNum(s_5)
  /\ parsed.result.err = "ErrMissingKey"

\* the text held under a key: empty when the key is absent
TextOf(object, key) == IF key \in DOMAIN object THEN object[key].s ELSE << >>

AllStrings(object) == \A k \in DOMAIN object : object[k].t = "str"

\* C21: on documents whose values are strings, a field resolves to the
\* value of its canonical key whenever that is present and not empty, even
\* with the short key present too; to the value of the short key when the
\* canonical one is absent or empty; and to MissingKey when both are absent
\* or empty.  For "file", which has no alias, there is no second lookup:
\* the result is the value of "file" or MissingKey, never an entry stored
\* under the empty-string key.
C21_KeyResolutionOrder ==
  (parsed.done /\ AllStrings(parsed.object)) =>
    /\ parsed.fn = "Resolve" =>
         LET f == KeysOf(parsed.field)
             k == TextOf(parsed.object, f.key)
             short == TextOf(parsed.object, f.short_key) IN
         IF k # << >> THEN parsed.result = [err |-> "nil", value |-> k]
         ELSE IF short # << >> THEN parsed.result = [err |-> "nil", value |-> short]
         ELSE parsed.result.err = "ErrMissingKey"
    /\ parsed.fn = "GetFileValue" =>
         IF TextOf(parsed.object, "file") # << >>
         THEN parsed.result = [err |-> "nil", value |-> TextOf(parsed.object, "file")]
         ELSE parsed.result.err = "ErrMissingKey"

\* C22: a field that holds a JSON number or boolean under the key that is
\* consulted resolves, without error, to the text of that value.
C22_NumbersAndBooleansAreCoerced ==
  (parsed.done /\ parsed.fn = "Resolve"
     /\ KeysOf(parsed.field).key \in DOMAIN parsed.object
     /\ parsed.object[KeysOf(parsed.field).key].t \in {"num", "bool"}) =>
    parsed.result = [err |-> "nil", value |-> parsed.object[KeysOf(parsed.field).key].s]

\* C23: the catalog path and the local path are resolved alike.  Without
\* the collection (directory) fragment the result is MissingKey, whatever
\* else the document holds; without the data-object (file) fragment it is
\* the cleaned collection (directory) fragment alone, of kind Collection
\* (Directory); with it, it is the cleaned join of the two, of kind
\* DataObject (File).
C23_PathAndKind ==
  parsed.done =>
    /\ (parsed.fn \in {"GetiRODSPath", "GetiRODSPathValue"}
          /\ TextOf(parsed.object, "collection") = << >>
          /\ TextOf(parsed.object, "coll") = << >>) =>
         parsed.result.err = "ErrMissingKey"
    /\ (parsed.fn \in {"GetLocalPath", "GetLocalPathValue"}
          /\ TextOf(parsed.object, "directory") = << >>
          /\ TextOf(parsed.object, "dir") = << >>) =>
         parsed.result.err = "ErrMissingKey"
    /\ (parsed.fn = "GetiRODSPath" /\ TextOf(parsed.object, "collection") # << >>) =>
         LET c == TextOf(parsed.object, "collection")
             o == TextOf(parsed.object, "data_object") IN
         IF o = << >>
         THEN parsed.result = [err |-> "nil", path |-> Clean(c), coll |-> TRUE]
         ELSE parsed.result = [err |-> "nil", path |-> Clean(c \o << "/" >> \o o),
                               coll |-> FALSE]
    /\ (parsed.fn = "GetLocalPath" /\ TextOf(parsed.object, "directory") # << >>) =>
         LET d == TextOf(parsed.object, "directory")
             f == TextOf(parsed.object, "file") IN
         IF f = << >>
         THEN parsed.result = [err |-> "nil", path |-> Clean(d), dir |-> TRUE]
         ELSE parsed.result = [err |-> "nil", path |-> Clean(d \o << "/" >> \o f),
                               dir |-> FALSE]

EndsWithSeparator(path) == path # << >> /\ path[Len(path)] = "/"

\* the same document with a separator after its collection fragment
WithTrailingSeparator(object) ==
  [object EXCEPT !["collection"] = JStr(object["collection"].s \o << "/" >>)]

\* C24 (as stated): for every collection fragment other than the root and
\* every optional data-object fragment (the fields being JSON strings), the path is the one resolved with
\* a separator after the collection fragment, and it never ends with a
\* separator.
C24_NoTrailingSeparator ==
  (parsed.done /\ parsed.fn = "GetiRODSPathValue" /\ AllStrings(parsed.object)
     /\ TextOf(parsed.object, "collection") # << >>
     /\ Clean(TextOf(parsed.object, "collection")) # << "/" >>) =>
    /\ parsed.result.err = "nil"
    /\ parsed.result.path = GetiRODSPathValue(WithTrailingSeparator(parsed.object)).path
    /\ ~EndsWithSeparator(parsed.result.path)

\* C24 (amended): for every collection fragment and every optional
\* data-object fragment (the fields being JSON strings), the path is the one resolved with a separator
\* after the collection fragment, and it ends with a separator only when
\* it is the root "/" itself.
C24_TrailingSeparatorOnlyForRoot ==
  (parsed.done /\ parsed.fn = "GetiRODSPathValue" /\ AllStrings(parsed.object)
     /\ TextOf(parsed.object, "collection") # << >>) =>
    /\ parsed.result.err = "nil"
    /\ parsed.result.path = GetiRODSPathValue(WithTrailingSeparator(parsed.object)).path
    /\ (EndsWithSeparator(parsed.result.path) => parsed.result.path = << "/" >>)

\* a collection written with its separator, and a data object
C24_Witness ==
  /\ parsed.done /\ parsed.fn = "GetiRODSPathValue"
  /\ parsed.object = [collection |-> JStr(<< "/", "z", "/" >>), data_object |-> JStr(<< "z" >>)]
  /\ parsed.result.path = << "/", "z", "/", "z" >>

\* the data object ".." of a collection under the root
C24_WitnessRoot ==
  /\ parsed.done /\ parsed.fn = "GetiRODSPathValue"
  /\ parsed.object = [collection |-> JStr(<< "/", "z" >>), data_object |-> JStr(<< ".", "." >>)]
  /\ parsed.result.path = << "/" >>

\* -------------------------------------------------------------- failures
\* the error a handler holds after collaborator call fn has failed
FailureOf(fn) ==
  CASE fn = "NewFileSystem" -> "ErrSession"
    [] fn = "GetMetadataConnection" -> "ErrConnection"
    [] fn = "UploadFile" -> "ErrUpload"
    [] fn = "DownloadFile" -> "ErrDownload"
    [] fn = "AddMetadata" -> "ErrAddMetadata"
    [] fn = "DeleteMetadataByName" -> "ErrDeleteMetadata"
    [] fn \in {"ChangeCollectionAccess", "ChangeDataObjectAccess"} -> "ErrChangeAccess"
    [] fn = "Request" -> "ErrRequest"
    [] OTHER -> "nil"

Collaborators ==
  {"NewFileSystem", "GetMetadataConnection", "UploadFile", "DownloadFile", "AddMetadata",
   "DeleteMetadataByName", "ChangeCollectionAccess", "ChangeDataObjectAccess", "Request"}

Handlers == {"put", "get", "chmod", "metamod", "metaquery"}

\* the calls that only give back what the handler holds
Releases == {"Release", "Unlock"}

\* the answer of the catalog to the last query is an error other than
\* no-rows-found
CatalogFailed ==
  /\ loc.queries # << >>
  /\ ~loc.queries[Len(loc.queries)].result.reqErr
  /\ QueryFailed(loc.queries[Len(loc.queries)].result)

\* C25: in every handler, once a collaborator call has failed with e (or a
\* query was answered with a catalog error other than no-rows-found), no
\* further mutation or query call is made, and the handler returns e; a
\* handler returns success only if every check and every collaborator call
\* it made succeeded (for Get: the local path of a collection is not a file).
C25_NoFailureSwallowed ==
  cmd \in Handlers =>
    /\ \A i \in DOMAIN trace :
         (trace[i].fn \in Collaborators /\ ~trace[i].ok) =>
           /\ \A j \in DOMAIN trace : j > i => trace[j].fn \in Releases
           /\ pc = "done" /\ err = FailureOf(trace[i].fn)
    /\ CatalogFailed =>
         /\ Positions({"Request"}) # {}
         /\ pc = "done" /\ err = "ErrCatalog"
         /\ \A j \in DOMAIN trace :
              (\A r \in Positions({"Request"}) : r < j) => (trace[j].fn \in Releases)
    /\ (pc = "done" /\ err = "nil") =>
         /\ \A i \in DOMAIN trace : trace[i].ok
         /\ \A q \in DOMAIN loc.queries : ~QueryFailed(loc.queries[q].result)
         /\ (cmd = "get" => ~(loc.coll /\ ~loc.dir))

\* an access entry that is not an object, or lacks an owner or a level
Malformed(item) == item.t # "obj" \/ LacksOwnerOrLevel(item)

MalformedAt == {j \in DOMAIN loc.acls : Malformed(loc.acls[j])}

\* the position of the first malformed entry of the list
FirstMalformed == CHOOSE k \in MalformedAt : \A j \in MalformedAt : k <= j

\* C26: Chmod validates the access entries inside the locked loop.  For a
\* list whose first malformed entry is at position k: no session or lock is
\* refused because of it; every access change made is for one of the
\* entries 1..k-1, in order; the loop never goes past entry k; and when it
\* comes to entry k (the changes of 1..k-1 having succeeded) Chmod returns
\* the error of that entry, MissingKey or the decoding error.
C26_LazyValidation ==
  (InChmodLoop /\ MalformedAt # {}) =>
    /\ \A j \in DOMAIN AccessCalls :
         AccessCalls[j].idx = j /\ AccessCalls[j].idx < FirstMalformed
    /\ loc.i <= FirstMalformed
    /\ (pc = "done" => err # "nil")
    /\ (pc = "done" /\ loc.i = FirstMalformed) =>
         /\ err \in {"ErrMissingKey", "ErrUnmarshal"}
         /\ Len(AccessCalls) = FirstMalformed - 1
         /\ \A j \in DOMAIN AccessCalls : AccessCalls[j].ok

\* ------------------------------------------------------- standard output
\* C27: MetaQuery writes to standard output at most once, the whole result
\* as one document, and only when it returns success, after every requested
\* class query was answered with success or no-rows-found; whenever it
\* returns an error nothing has been written.
C27_OutputOnlyOnSuccess ==
  cmd = "metaquery" =>
    /\ Len(stdout) <= 1
    /\ stdout # << >> =>
         /\ pc = "done" /\ err = "nil"
         /\ stdout[1] = loc.jsonOut
         /\ Len(loc.queries) = Len(ExpectedClasses)
         /\ \A q \in DOMAIN loc.queries : Succeeded(loc.queries[q].result)
    /\ (pc = "done" /\ err # "nil") => stdout = << >>
    /\ (pc = "done" /\ err = "nil") => Len(stdout) = 1

\* two collections were found, the data-object query failed: the two
\* entries are not written
C27_Witness ==
  /\ BothClasses /\ pc = "done" /\ err = "ErrCatalog"
  /\ Len(loc.queries) = 2
  /\ loc.queries[1].result.rows = 2
  /\ Len(loc.jsonOut) = 2
  /\ stdout = << >>

\* a result of two entries written as one document
C27_WitnessWritten ==
  /\ cmd = "metaquery" /\ pc = "done" /\ err = "nil"
  /\ Len(stdout) = 1 /\ Len(stdout[1]) = 2

\* ------------------------------------------------------------- sessions
\* the handler cannot resolve the fields it requires from the document (for
\* MetaMod: or its operation is not an allowed one)
ResolutionFails ==
  CASE cmd \in {"put", "get"} ->
         GetiRODSPath(doc).err # "nil" \/ GetLocalPath(doc).err # "nil"
    [] cmd = "chmod" -> GetiRODSPath(doc).err # "nil" \/ GetACLList(doc).err # "nil"
    [] cmd = "metamod" ->
         \/ ~OperationAllowed(flags.operation)
         \/ GetiRODSPathValue(doc).err # "nil"
         \/ GetAVUsList(doc).err # "nil"
    [] cmd = "metaquery" -> GetAVUsList(doc).err # "nil"

\* the sessions created so far
Sessions == {i \in Positions({"NewFileSystem"}) : trace[i].ok}

C28_WitnessNoSession ==
  /\ cmd = "metaquery" /\ pc = "done" /\ err # "nil"
  /\ Called("GetAVUsList")
  /\ ResolutionFails
  /\ ~Called("NewFileSystem") /\ ~Called("Release")

\* Put whose upload fails: the session is released
C28_WitnessPut ==
  /\ cmd = "put" /\ pc = "done" /\ err = "ErrUpload"
  /\ Cardinality(Sessions) = 1
  /\ trace[Len(trace)].fn = "Release"

====
